---- MODULE Spec2Model ----
(***************************************************************************)
(* KevOps: the paginated query engine of kevops_explore.py (_paged_wiql,   *)
(* _get_work_items) and the hierarchy resolver of app.py (build_hierarchy, *)
(* flatten, fetch_details), modelled as state machines whose steps are the *)
(* network round trips of the code.  The service ceilings keep their real  *)
(* values (20 000 IDs per WIQL page, 200 IDs per detail request).          *)
(***************************************************************************)
EXTENDS Integers, Sequences, FiniteSets, TLC

VARIABLES
    \* ---- _paged_wiql (kevops_explore.py) ----
    rows,       \* the service's matching IDs, in ORDER BY [System.Id] order
    last_id,    \* the cursor
    all_ids,    \* the IDs collected so far
    pages,      \* history: one record per page request issued
    wpc,        \* "idle" | "page" (in the while loop) | "done" (returned)
    errs,       \* number of _handle_error reports (st.error / stderr)
    \* ---- _get_work_items (kevops_explore.py) / fetch_details (app.py) ----
    d_fn,       \* which of the two functions runs
    d_ids,      \* the ids argument
    d_i,        \* the loop variable i of range(0, len(ids), 200)
    d_items,    \* items / details: the records collected so far
    d_calls,    \* history: the ID chunk of every detail request issued
    d_resps,    \* history: the "value" list read from every detail response
    dpc,        \* "idle" | "call" | "loop" | "done" (returned) | "raised"
    \* ---- build_hierarchy (app.py) ----
    links,      \* the service's data: work item ID -> its relation list
    root_id,    \* the root_id argument
    children,   \* the defaultdict(list): parent ID -> child IDs
    seen,       \* the seen set
    queue,      \* the deque
    fetched,    \* history: the IDs whose documents were received, in order
    enqueued,   \* history: every ID put on the queue, in order
    h_failed,   \* history: a batch request failed
    hpc,        \* "idle" | "bfs" (in the while loop) | "returned" | "raised"
    \* ---- flatten (app.py), called on the returned map ----
    res,        \* the result list
    stack,      \* the explicit stack
    f_run,      \* how many calls of flatten have been started
    res1,       \* history: the result of the first call
    cmap0,      \* history: the map as build_hierarchy returned it
    fpc,        \* "idle" | "run" (in the while loop) | "done" (returned)
    \* ---- get_open_tasks / get_my_open_tasks (kevops_explore.py) ----
    tpc,        \* "idle" | "wiql" (in _paged_wiql) | "details" (in _get_work_items)
    call_no,    \* which call with the same arguments is running: 1 or 2
    net1,       \* history: the requests issued when the first call returned
    result1,    \* history: what the first call returned
    \* ---- the KPI block of the dashboard (app.py) ----
    df_det,     \* the frame fetch_details returned: its columns and its rows
    total,      \* len(df_det)
    closed_cnt, \* rows whose State is in FINAL_STATES
    open_cnt,   \* total - closed_cnt
    pct,        \* percent complete, in tenths of a percent (125 is 12.5)
    kpc,        \* "idle" | "kpis" (before line 225) | "done" | "raised" (KeyError)
    \* ---- main (kevops_explore.py) ----
    argv,       \* sys.argv[1:]: the command-line tokens
    environ,    \* os.environ: the three AZURE_DEVOPS_* variables ("" when unset)
    calls,      \* history: every query operation called, with its arguments
    tasks,      \* the list the query operation returned
    out,        \* standard output: the texts printed, each a sequence of characters
    mpc,        \* "idle" | "start" | "query" | "done" (returned) | "exit" (SystemExit)
    \* ---- the network ----
    net         \* number of HTTP requests issued so far

wiqlVars == <<rows, last_id, all_ids, pages, wpc>>
detailVars == <<d_fn, d_ids, d_i, d_items, d_calls, d_resps, dpc>>
hierVars == <<links, root_id, children, seen, queue, fetched, enqueued, h_failed, hpc>>
flatVars == <<res, stack, f_run, res1, cmap0, fpc>>
appVars == <<hierVars, flatVars>>
taskVars == <<tpc, call_no, net1, result1>>
kpiVars == <<df_det, total, closed_cnt, open_cnt, pct, kpc>>
cliVars == <<argv, environ, calls, tasks, out, mpc>>
vars == <<wiqlVars, errs, detailVars, hierVars, flatVars, taskVars, kpiVars, cliVars, net>>

\* ------------------------------------------------------------------ bounds
MaxOffset == 2        \* matching IDs start after 0..MaxOffset
MaxStride == 2        \* gap between consecutive matching IDs, 1..MaxStride
MaxSmallId == 4       \* irregular matching sets are subsets of 1..MaxSmallId
MaxIds == 401         \* detail fetches are checked for 0..MaxIds ids
MaxNode == 3          \* the enumerated link graphs are over work items 1..MaxNode
MaxLinks == 3         \* ... and hold at most MaxLinks relations in all
MaxFlatten == 14      \* flatten is followed for at most MaxFlatten pops
MaxRows == 4          \* every detail set of at most MaxRows rows is aggregated
MaxTotal == 16        \* ... and every closed/open split of up to MaxTotal rows
MaxFlags == 3         \* a command line holds at most MaxFlags options
MaxTasks == 3         \* the query of a command-line run matches 0..MaxTasks tasks, or ten more

\* --------------------------------------------------------------- constants
WIQL_BATCH == 20000
WI_DETAILS_BATCH == 200
BATCH_SIZE == 200
InitialCursor == 0

\* ----------------------------------------------------------------- helpers
Range(s) == {s[i] : i \in 1..Len(s)}

Min(a, b) == IF a < b THEN a ELSE b

RECURSIVE SortedSeq(_)
SortedSeq(S) ==
    IF S = {} THEN <<>>
    ELSE LET m == CHOOSE x \in S : \A y \in S : x <= y
         IN  <<m>> \o SortedSeq(S \ {m})

\* ------------------------------------------------ the WIQL query endpoint
\* "WHERE {base_predicate} AND [System.Id] > {last_id}"
CursorPredicate_Inclusive(id, cursor) == id >= cursor
CursorPredicate(id, cursor) == id > cursor

\* _wiql_query with &$top=top: the matching rows beyond the cursor, in ID
\* order, capped at top (no cap when top is 0: "if top:").
_wiql_query(matching, cursor, top) ==
    LET beyond == SelectSeq(matching, LAMBDA id : CursorPredicate(id, cursor))
    IN  IF top = 0 THEN beyond ELSE SubSeq(beyond, 1, Min(top, Len(beyond)))

\* "last_id = ids[-1]"
NextCursor_First(ids) == ids[1]
NextCursor(ids) == ids[Len(ids)]

\* One iteration of the while loop of _paged_wiql: one page request.  When the
\* round trip fails, _api_request reports the error and returns {}, so the
\* page is read as empty.
PagedWiqlStep(ok) ==
    /\ wpc = "page"
    /\ LET ids == IF ok THEN _wiql_query(rows, last_id, WIQL_BATCH) ELSE <<>>
       IN  /\ pages' = Append(pages,
                  [cursor |-> last_id, ok |-> ok, n |-> Len(ids),
                   first |-> IF ids = <<>> THEN 0 ELSE ids[1],
                   last |-> IF ids = <<>> THEN 0 ELSE ids[Len(ids)]])
           /\ errs' = IF ok THEN errs ELSE errs + 1
           /\ IF ids = <<>>
                 THEN /\ wpc' = "done"
                      /\ UNCHANGED <<all_ids, last_id>>
                 ELSE /\ all_ids' = all_ids \o ids
                      /\ last_id' = NextCursor(ids)
                      /\ wpc' = "page"
    /\ net' = net + 1
    /\ UNCHANGED <<rows, detailVars, appVars, taskVars, kpiVars, cliVars>>

PageOk == PagedWiqlStep(TRUE)
PageFail == PagedWiqlStep(FALSE)

\* The result sizes around the page ceiling, and one more page.
PageSizes == {0, 1, 2, WIQL_BATCH - 1, WIQL_BATCH, WIQL_BATCH + 1,
              2 * WIQL_BATCH, 2 * WIQL_BATCH + 1}

MatchingChoices ==
    {[i \in 1..n |-> o + s * i] : n \in PageSizes, o \in 0..MaxOffset, s \in 1..MaxStride}
    \cup {SortedSeq(S) : S \in SUBSET (1..MaxSmallId)}

DetailIdle ==
    /\ d_fn = "none" /\ d_ids = <<>> /\ d_i = 0 /\ d_items = <<>>
    /\ d_calls = <<>> /\ d_resps = <<>> /\ dpc = "idle"

HierIdle ==
    /\ links = <<>> /\ root_id = 0 /\ children = <<>> /\ seen = {}
    /\ queue = <<>> /\ fetched = <<>> /\ enqueued = <<>>
    /\ h_failed = FALSE /\ hpc = "idle"

FlatIdle ==
    /\ res = <<>> /\ stack = <<>> /\ f_run = 0 /\ res1 = <<>>
    /\ cmap0 = <<>> /\ fpc = "idle"

TasksIdle ==
    /\ tpc = "idle" /\ call_no = 0 /\ net1 = 0 /\ result1 = <<>>

\* "return pd.DataFrame()": a frame with no columns and no rows.
EmptyFrame == [columns |-> {}, rows |-> <<>>]

KpiIdle ==
    /\ df_det = EmptyFrame /\ total = 0 /\ closed_cnt = 0 /\ open_cnt = 0
    /\ pct = 0 /\ kpc = "idle"

\* os.environ without the AZURE_DEVOPS_* variables.
NoEnviron ==
    [AZURE_DEVOPS_ORG_URL |-> "", AZURE_DEVOPS_PROJECT |-> "", AZURE_DEVOPS_PAT |-> ""]

MainIdle ==
    /\ argv = <<>> /\ environ = NoEnviron /\ calls = <<>> /\ tasks = <<>>
    /\ out = <<>> /\ mpc = "idle"

WiqlInit ==
    /\ rows \in MatchingChoices
    /\ last_id = InitialCursor
    /\ all_ids = <<>>
    /\ pages = <<>>
    /\ errs = 0
    /\ wpc = "page"
    /\ DetailIdle /\ HierIdle /\ FlatIdle /\ TasksIdle /\ KpiIdle /\ MainIdle
    /\ net = 0

WiqlNext == PageOk \/ PageFail

SpecWiql == WiqlInit /\ [][WiqlNext]_vars

\* ------------------------------------------------- the detail endpoint
\* GET _apis/wit/workitems?ids=...: one document per requested ID, in request
\* order, under "value".
WorkItemDoc(id) == [id |-> id, fields |-> [State |-> "Active"]]

WorkItemsResponse(chunk) == [k \in 1..Len(chunk) |-> WorkItemDoc(chunk[k])]

\* "ids[i : i + WI_DETAILS_BATCH]" and chunk_list(lst, 200): a Python slice,
\* which stops at the end of the list.
Slice_OneShort(lst, i, n) == SubSeq(lst, i + 1, Min(i + n - 1, Len(lst)))
Slice(lst, i, n) == SubSeq(lst, i + 1, Min(i + n, Len(lst)))

\* What each function keeps of a document: _get_work_items the document
\* itself, fetch_details a row keyed by 'ID'.
DetailRecord(fn, itm) ==
    IF fn = "fetch_details"
        THEN [ID |-> itm.id, State |-> itm.fields.State]
        ELSE itm

\* "if not ids: return []" / "return pd.DataFrame()"
DetailCall ==
    /\ dpc = "call"
    /\ dpc' = IF d_ids = <<>> THEN "done" ELSE "loop"
    /\ UNCHANGED <<d_fn, d_ids, d_i, d_items, d_calls, d_resps, errs, wiqlVars, appVars,
                   taskVars, kpiVars, cliVars, net>>

\* One iteration of the chunk loop: one detail request.  A failed round trip
\* raises out of fetch_details (raise_for_status); in _get_work_items
\* _api_request reports it and returns {}, read as no documents.
DetailChunk(ok) ==
    /\ dpc = "loop"
    /\ LET chunk == Slice(d_ids, d_i, WI_DETAILS_BATCH)
           value == IF ok THEN WorkItemsResponse(chunk) ELSE <<>>
       IN  /\ d_calls' = Append(d_calls, chunk)
           /\ IF ~ok /\ d_fn = "fetch_details"
                 THEN /\ dpc' = "raised"
                      /\ UNCHANGED <<d_i, d_items, d_resps, errs>>
                 ELSE /\ d_resps' = Append(d_resps, value)
                      /\ d_items' = d_items \o
                            [k \in 1..Len(value) |-> DetailRecord(d_fn, value[k])]
                      /\ errs' = IF ok THEN errs ELSE errs + 1
                      /\ d_i' = d_i + WI_DETAILS_BATCH
                      /\ dpc' = IF d_i + WI_DETAILS_BATCH < Len(d_ids)
                                   THEN "loop" ELSE "done"
    /\ net' = net + 1
    /\ UNCHANGED <<d_fn, d_ids, wiqlVars, appVars, taskVars, kpiVars, cliVars>>

DetailChunkOk == DetailChunk(TRUE)
DetailChunkFail == DetailChunk(FALSE)

WiqlIdle ==
    /\ rows = <<>> /\ last_id = InitialCursor /\ all_ids = <<>>
    /\ pages = <<>> /\ wpc = "idle"

\* The ids handed in: ascending (from _paged_wiql, or sorted(all_ids) in the
\* dashboard) or descending (an order flatten can give).
IdListChoices ==
    {[i \in 1..n |-> i] : n \in 0..MaxIds} \cup {[i \in 1..n |-> n + 1 - i] : n \in 0..MaxIds}

DetailInit ==
    /\ d_fn \in {"_get_work_items", "fetch_details"}
    /\ d_ids \in IdListChoices
    /\ d_i = 0 /\ d_items = <<>> /\ d_calls = <<>> /\ d_resps = <<>>
    /\ dpc = "call"
    /\ errs = 0
    /\ WiqlIdle /\ HierIdle /\ FlatIdle /\ TasksIdle /\ KpiIdle /\ MainIdle
    /\ net = 0

DetailNext == DetailCall \/ DetailChunkOk \/ DetailChunkFail

SpecDetail == DetailInit /\ [][DetailNext]_vars

\* ------------------------------------------------------ build_hierarchy
\* Text is a sequence of one-character strings.
DigitChars == <<"0", "1", "2", "3", "4", "5", "6", "7", "8", "9">>

IsDigit(c) == \E d \in 1..10 : DigitChars[d] = c

DigitValue(c) == (CHOOSE d \in 1..10 : DigitChars[d] = c) - 1

\* str(n) for n >= 0
RECURSIVE Str(_)
Str(n) ==
    IF n < 10 THEN <<DigitChars[n + 1]>>
    ELSE Str(n \div 10) \o <<DigitChars[(n % 10) + 1]>>

RECURSIVE DecimalValue(_)
DecimalValue(s) ==
    IF s = <<>> THEN 0
    ELSE 10 * DecimalValue(SubSeq(s, 1, Len(s) - 1)) + DigitValue(s[Len(s)])

\* int(text) over the alphabet of the model (digits, letters, "/"): the value
\* of a non-empty run of digits, ValueError otherwise.
ParseInt_DigitsPrefix(s) ==
    LET n == IF \E i \in 1..Len(s) : ~IsDigit(s[i])
                THEN (CHOOSE i \in 1..Len(s) :
                        ~IsDigit(s[i]) /\ \A j \in 1..(i - 1) : IsDigit(s[j])) - 1
                ELSE Len(s)
    IN  IF n = 0 THEN [ok |-> FALSE, val |-> 0]
        ELSE [ok |-> TRUE, val |-> DecimalValue(SubSeq(s, 1, n))]
ParseInt(s) ==
    IF s # <<>> /\ \A i \in 1..Len(s) : IsDigit(s[i])
        THEN [ok |-> TRUE, val |-> DecimalValue(s)]
        ELSE [ok |-> FALSE, val |-> 0]

\* url.rsplit('/', 1)[-1]: the text after the last "/", the whole text when
\* it holds none.
RsplitLast(url) ==
    LET slashes == {i \in 1..Len(url) : url[i] = "/"}
    IN  IF slashes = {} THEN url
        ELSE SubSeq(url, (CHOOSE i \in slashes : \A j \in slashes : j <= i) + 1, Len(url))

HierarchyForward == "System.LinkTypes.Hierarchy-Forward"
HierarchyReverse == "System.LinkTypes.Hierarchy-Reverse"

\* The relations the service holds.  target is the linked work item (0 when
\* the link is malformed); the code reads rel and url only.
UrlBase == <<"o", "/", "w", "/">>
ForwardTo(k) == [rel |-> HierarchyForward, url |-> UrlBase \o Str(k), target |-> k]
ReverseTo(k) == [rel |-> HierarchyReverse, url |-> UrlBase \o Str(k), target |-> k]
ForwardMalformed == [rel |-> HierarchyForward, url |-> UrlBase \o <<"1", "x">>, target |-> 0]

\* children.get(k, []) / children_map.get(k, [])
Get(map, k) == IF k \in DOMAIN map THEN map[k] ELSE <<>>

\* "children[pid].append(cid)" on the defaultdict
AppendChild(map, pid, cid) ==
    IF pid \in DOMAIN map THEN [map EXCEPT ![pid] = Append(@, cid)]
    ELSE map @@ (pid :> <<cid>>)

\* "if cid not in seen: seen.add(cid); queue.append(cid)"
Enqueue_Always(st, cid) ==
    [st EXCEPT !.seen = @ \cup {cid}, !.queue = Append(@, cid),
               !.enqueued = Append(@, cid)]
Enqueue_NoSeenAdd(st, cid) ==
    IF cid \notin st.seen
        THEN [st EXCEPT !.queue = Append(@, cid), !.enqueued = Append(@, cid)]
        ELSE st
Enqueue(st, cid) ==
    IF cid \notin st.seen
        THEN [st EXCEPT !.seen = @ \cup {cid}, !.queue = Append(@, cid),
                        !.enqueued = Append(@, cid)]
        ELSE st

\* The body of "for rel in wi.get('relations', [])"
ProcessRelation_EdgeOnlyIfNew(st, pid, rel) ==
    IF rel.rel # HierarchyForward THEN st
    ELSE LET cid == ParseInt(RsplitLast(rel.url))
         IN  IF ~cid.ok THEN st
             ELSE IF cid.val \in st.seen THEN st
             ELSE Enqueue([st EXCEPT !.children = AppendChild(@, pid, cid.val)], cid.val)
ProcessRelation(st, pid, rel) ==
    IF rel.rel # HierarchyForward THEN st
    ELSE LET cid == ParseInt(RsplitLast(rel.url))
         IN  IF ~cid.ok THEN st                     \* except ValueError: continue
             ELSE Enqueue([st EXCEPT !.children = AppendChild(@, pid, cid.val)], cid.val)

\* "for rel in wi.get('relations', [])": the relations in order, folded as
\* first half then second half (the test on first makes TLC evaluate it
\* before going on, which keeps its evaluation shallow for long lists).
RECURSIVE ProcessRelations(_, _, _)
ProcessRelations(st, pid, rels) ==
    IF rels = <<>> THEN st
    ELSE IF Len(rels) = 1 THEN ProcessRelation(st, pid, rels[1])
    ELSE LET half == Len(rels) \div 2
             first == ProcessRelations(st, pid, SubSeq(rels, 1, half))
         IN  IF first.seen = {} THEN first
             ELSE ProcessRelations(first, pid, SubSeq(rels, half + 1, Len(rels)))

\* "for wi in resp.json().get('value', [])": the documents in order, folded
\* the same way.
RECURSIVE ProcessItems(_, _)
ProcessItems(st, items) ==
    IF items = <<>> THEN st
    ELSE IF Len(items) = 1
        THEN ProcessRelations(st, items[1].id, items[1].relations)
    ELSE LET half == Len(items) \div 2
             first == ProcessItems(st, SubSeq(items, 1, half))
         IN  IF first.seen = {} THEN first
             ELSE ProcessItems(first, SubSeq(items, half + 1, Len(items)))

\* GET workitems?ids=<batch>&$expand=relations: the documents of the IDs
\* named in the request text, in request order.
ExpandResponse(batch) ==
    [k \in 1..Len(batch) |->
        [id |-> ParseInt(batch[k]).val, relations |-> links[ParseInt(batch[k]).val]]]

\* "batch_size = min(200, len(queue))"
BatchSize(q) == Min(BATCH_SIZE, Len(q))

\* One iteration of the while loop of build_hierarchy: one batch request.  A
\* failed round trip raises out of the function (raise_for_status).
BfsStep(ok) ==
    /\ hpc = "bfs"
    /\ LET batch_size == BatchSize(queue)
           popped == SubSeq(queue, 1, batch_size)
           batch == [k \in 1..batch_size |-> Str(popped[k])]
           rest == SubSeq(queue, batch_size + 1, Len(queue))
           st == ProcessItems([children |-> children, seen |-> seen,
                               queue |-> rest, enqueued |-> enqueued],
                              ExpandResponse(batch))
       IN  IF ok
             THEN /\ children' = st.children
                  /\ seen' = st.seen
                  /\ queue' = st.queue
                  /\ enqueued' = st.enqueued
                  /\ fetched' = fetched \o popped
                  /\ hpc' = IF st.queue = <<>> THEN "returned" ELSE "bfs"
                  /\ cmap0' = IF st.queue = <<>> THEN st.children ELSE cmap0
                  /\ UNCHANGED h_failed
             ELSE /\ queue' = rest
                  /\ h_failed' = TRUE
                  /\ hpc' = "raised"
                  /\ UNCHANGED <<children, seen, enqueued, fetched, cmap0>>
    /\ net' = net + 1
    /\ UNCHANGED <<links, root_id, res, stack, f_run, res1, fpc, wiqlVars, errs, detailVars,
                   taskVars, kpiVars, cliVars>>

BfsStepOk == BfsStep(TRUE)
BfsStepFail == BfsStep(FALSE)

\* ---------------------------------------------------------------- flatten
\* "res, stack = [], children_map.get(root_id, []).copy()"; the dashboard
\* calls flatten on the same map twice (the KPI pass and the expander).
FlattenCall ==
    /\ hpc = "returned"
    /\ \/ fpc = "idle"
       \/ fpc = "done" /\ f_run = 1
    /\ f_run' = f_run + 1
    /\ res1' = IF f_run = 1 THEN res ELSE res1
    /\ res' = <<>>
    /\ stack' = Get(children, root_id)
    /\ fpc' = IF Get(children, root_id) = <<>> THEN "done" ELSE "run"
    /\ UNCHANGED <<cmap0, hierVars, wiqlVars, errs, detailVars, taskVars, kpiVars, cliVars, net>>

\* "stack.extend(children_map.get(cid, []))"
Extend_Nothing(stk, map, cid) == stk
Extend(stk, map, cid) == stk \o Get(map, cid)

\* One iteration of the while loop of flatten.
FlattenStep ==
    /\ fpc = "run"
    /\ Len(res) < MaxFlatten
    /\ LET cid == stack[Len(stack)]
           stk == Extend(SubSeq(stack, 1, Len(stack) - 1), children, cid)
       IN  /\ res' = Append(res, cid)
           /\ stack' = stk
           /\ fpc' = IF stk = <<>> THEN "done" ELSE "run"
    /\ UNCHANGED <<f_run, res1, cmap0, hierVars, wiqlVars, errs, detailVars, taskVars, kpiVars, cliVars, net>>

\* ------------------------------------------------- the link graphs checked
Nodes == 1..MaxNode

\* Non-forward relations are carried by BinaryTree below (a Hierarchy-Reverse
\* link from every child to its parent).
RelationChoices == {ForwardTo(k) : k \in Nodes} \cup {ForwardMalformed}

\* Edge lists <<parent, relation>>, parents in ascending order: every
\* assignment of at most MaxLinks relations to the items, each exactly once.
EdgeListChoices ==
    {es \in UNION {[1..n -> Nodes \X RelationChoices] : n \in 0..MaxLinks} :
        \A k \in 1..(Len(es) - 1) : es[k][1] <= es[k + 1][1]}

\* The relation lists an edge list gives: the relations of each parent, in
\* edge-list order.
LinksOf(es) ==
    [p \in Nodes |->
        LET mine == SelectSeq(es, LAMBDA e : e[1] = p)
        IN  [k \in 1..Len(mine) |-> mine[k][2]]]

\* The tree of depth 3 and branching factor 2: 1 -> 2, 3; ...; 7 -> 14, 15.
BinaryTree ==
    [p \in 1..15 |->
        (IF p > 1 THEN <<ReverseTo(p \div 2)>> ELSE <<>>)
        \o (IF p <= 7 THEN <<ForwardTo(2 * p), ForwardTo(2 * p + 1)>> ELSE <<>>)]

\* A root with one child more than a batch holds.
Star ==
    [p \in 1..(BATCH_SIZE + 2) |->
        IF p = 1 THEN [k \in 1..(BATCH_SIZE + 1) |-> ForwardTo(k + 1)] ELSE <<>>]

HierInit ==
    /\ \/ \E es \in EdgeListChoices : links = LinksOf(es) /\ root_id \in Nodes
       \/ links \in {BinaryTree, Star} /\ root_id = 1
    /\ children = <<>>
    /\ seen = {root_id}
    /\ queue = <<root_id>>
    /\ enqueued = <<root_id>>
    /\ fetched = <<>>
    /\ h_failed = FALSE
    /\ hpc = "bfs"
    /\ FlatIdle
    /\ errs = 0
    /\ WiqlIdle /\ DetailIdle /\ TasksIdle /\ KpiIdle /\ MainIdle
    /\ net = 0

HierNext == BfsStepOk \/ BfsStepFail \/ FlattenCall \/ FlattenStep

SpecHier == HierInit /\ [][HierNext]_vars

\* ---------------------------------- get_open_tasks / get_my_open_tasks
\* "ids = _paged_wiql(...)" has returned: "return _get_work_items(org_url,
\* ids, pat)" starts.
GetTasksDetails ==
    /\ tpc = "wiql" /\ wpc = "done"
    /\ tpc' = "details"
    /\ d_fn' = "_get_work_items"
    /\ d_ids' = all_ids
    /\ d_i' = 0 /\ d_items' = <<>> /\ d_calls' = <<>> /\ d_resps' = <<>>
    /\ dpc' = "call"
    /\ UNCHANGED <<wiqlVars, errs, appVars, kpiVars, cliVars, call_no, net1, result1, net>>

\* The first call has returned and the caller calls again with the same
\* arguments: the function has no cache, so its body runs from the top.
GetTasksAgain ==
    /\ tpc = "details" /\ dpc = "done" /\ call_no = 1
    /\ call_no' = 2
    /\ net1' = net
    /\ result1' = d_items
    /\ tpc' = "wiql"
    /\ last_id' = InitialCursor /\ all_ids' = <<>> /\ pages' = <<>> /\ wpc' = "page"
    /\ d_fn' = "none" /\ d_ids' = <<>> /\ d_i' = 0 /\ d_items' = <<>>
    /\ d_calls' = <<>> /\ d_resps' = <<>> /\ dpc' = "idle"
    /\ UNCHANGED <<rows, errs, appVars, kpiVars, cliVars, net>>

TasksInit ==
    /\ rows \in {SortedSeq(S) : S \in SUBSET (1..MaxSmallId)}
    /\ last_id = InitialCursor /\ all_ids = <<>> /\ pages = <<>> /\ wpc = "page"
    /\ tpc = "wiql" /\ call_no = 1 /\ net1 = 0 /\ result1 = <<>>
    /\ errs = 0 /\ net = 0
    /\ DetailIdle /\ HierIdle /\ FlatIdle /\ KpiIdle /\ MainIdle

TasksNext ==
    \/ PageOk \/ PageFail
    \/ GetTasksDetails
    \/ DetailCall \/ DetailChunkOk \/ DetailChunkFail
    \/ GetTasksAgain

SpecTasks == TasksInit /\ [][TasksNext]_vars

\* ------------------------------------------------ the KPI block (app.py)
FINAL_STATES == {"Closed", "Removed", "Resolved"}

StateChoices == FINAL_STATES \cup {"Active", "New"}

\* "return pd.DataFrame(details).set_index('ID')" for the rows collected, and
\* "return pd.DataFrame()" when fetch_details is given no ids.
DataFrame(details) ==
    IF details = <<>> THEN EmptyFrame
    ELSE [columns |-> {"State"}, rows |-> details]

\* df['State']: the column, or KeyError when the frame has no such column.
Column(df, name) ==
    IF name \in df.columns
        THEN [ok |-> TRUE, values |-> [k \in 1..Len(df.rows) |-> df.rows[k][name]]]
        ELSE [ok |-> FALSE, values |-> <<>>]

\* Series.isin(values) and Series.sum() of the resulting mask.
IsIn(col, values) == [k \in 1..Len(col) |-> col[k] \in values]
SumTrue(mask) == Len(SelectSeq(mask, LAMBDA b : b))

\* round(closed_cnt / total * 100, 1), in tenths: the nearest tenth, a value
\* half-way between two tenths going to the even one.  (Among totals below 32
\* only 16 has half-way values: multiples of 1/16, which the
\* floating-point quotient and product hold exactly.)
Round1(c, t) ==
    LET q == (1000 * c) \div t
        r == (1000 * c) % t
    IN  IF 2 * r < t THEN q
        ELSE IF 2 * r > t THEN q + 1
        ELSE IF q % 2 = 0 THEN q ELSE q + 1

\* Lines 225-228 of the dashboard: total, closed_cnt, open_cnt, pct.  On the
\* frame without columns df_det['State'] raises KeyError after total is set.
Kpis ==
    /\ kpc = "kpis"
    /\ total' = Len(df_det.rows)
    /\ LET state == Column(df_det, "State")
           c == SumTrue(IsIn(state.values, FINAL_STATES))
       IN  IF ~state.ok
              THEN /\ kpc' = "raised"
                   /\ UNCHANGED <<closed_cnt, open_cnt, pct>>
              ELSE /\ closed_cnt' = c
                   /\ open_cnt' = total' - c
                   /\ pct' = IF total' # 0 THEN Round1(c, total') ELSE 0
                   /\ kpc' = "done"
    /\ UNCHANGED <<df_det, wiqlVars, errs, detailVars, appVars, taskVars, cliVars, net>>

\* The State columns aggregated: every list of at most MaxRows states, and
\* for larger sets every number of final states among up to MaxTotal rows.
StateListChoices ==
    UNION {[1..n -> StateChoices] : n \in 0..MaxRows}
    \cup UNION {{[k \in 1..n |-> IF k <= c THEN "Resolved" ELSE "Active"] :
                     c \in 0..n} : n \in (MaxRows + 1)..MaxTotal}

\* What fetch_details hands to the KPI block: one row per work item.
FrameChoices ==
    {DataFrame([k \in 1..Len(sts) |-> [ID |-> k, State |-> sts[k]]]) :
        sts \in StateListChoices}

KpiInit ==
    /\ df_det \in FrameChoices
    /\ total = 0 /\ closed_cnt = 0 /\ open_cnt = 0 /\ pct = 0
    /\ kpc = "kpis"
    /\ WiqlIdle /\ DetailIdle /\ HierIdle /\ FlatIdle /\ TasksIdle /\ MainIdle
    /\ errs = 0 /\ net = 0

KpiNext == Kpis

SpecKpi == KpiInit /\ [][KpiNext]_vars

\* ------------------------------------------------ main (kevops_explore.py)
\* The options main declares, and one it does not.
KnownFlags == {"--mine", "--count", "--area"}
UnknownFlags == {"--verbose"}

\* The Namespace before any token is read: positionals None (here ""),
\* store_true options False, the append option None.
DefaultNamespace ==
    [organization_url |-> "", project |-> "", pat |-> "",
     mine |-> FALSE, count |-> FALSE,
     area |-> [is_none |-> TRUE, values |-> <<>>], error |-> FALSE]

\* action="append": the first value starts the list, later ones extend it.
AppendArea_Store(area, v) == [is_none |-> FALSE, values |-> <<v>>]
AppendArea(area, v) == [is_none |-> FALSE, values |-> Append(area.values, v)]

\* A positional token fills organization_url, project, pat in that order; a
\* fourth one is left among the unknown arguments.
StorePositional(ns, tok) ==
    IF ns.organization_url = "" THEN [ns EXCEPT !.organization_url = tok]
    ELSE IF ns.project = "" THEN [ns EXCEPT !.project = tok]
    ELSE IF ns.pat = "" THEN [ns EXCEPT !.pat = tok]
    ELSE ns

\* parser.parse_known_args() from token k on: unknown flags are ignored, and
\* --area without a value is a usage error.
RECURSIVE ParseKnownArgs(_, _, _)
ParseKnownArgs(toks, k, ns) ==
    IF k > Len(toks) THEN ns
    ELSE IF toks[k] = "--mine"
        THEN ParseKnownArgs(toks, k + 1, [ns EXCEPT !.mine = TRUE])
    ELSE IF toks[k] = "--count"
        THEN ParseKnownArgs(toks, k + 1, [ns EXCEPT !.count = TRUE])
    ELSE IF toks[k] = "--area"
        THEN IF k + 1 > Len(toks) \/ toks[k + 1] \in KnownFlags \cup UnknownFlags
                THEN [ns EXCEPT !.error = TRUE]
                ELSE ParseKnownArgs(toks, k + 2,
                         [ns EXCEPT !.area = AppendArea(ns.area, toks[k + 1])])
    ELSE IF toks[k] \in UnknownFlags
        THEN ParseKnownArgs(toks, k + 1, ns)
    ELSE ParseKnownArgs(toks, k + 1, StorePositional(ns, toks[k]))

\* "a or b" over strings and None.
Or(a, b) == IF a # "" THEN a ELSE b

\* _resolve_credentials without Streamlit (st is None): arguments first, then
\* the environment; SystemExit when one of the three is missing.
_resolve_credentials(args, env) ==
    LET org_url == Or(args.organization_url, env.AZURE_DEVOPS_ORG_URL)
        project == Or(args.project, env.AZURE_DEVOPS_PROJECT)
        token == Or(args.pat, env.AZURE_DEVOPS_PAT)
    IN  [ok |-> org_url # "" /\ project # "" /\ token # "",
         org_url |-> org_url, project |-> project, pat |-> token]

\* The service's tasks matching the predicate of the operation called.
TaskCounts == (0..MaxTasks) \cup {MaxTasks + 10}
TaskRowChoices == {[i \in 1..n |-> 2 * i + 1] : n \in TaskCounts}

\* main up to the call of the query operation: parse the command line,
\* resolve the credentials, call get_my_open_tasks or get_open_tasks.
MainCall ==
    /\ mpc = "start"
    /\ LET args == ParseKnownArgs(argv, 1, DefaultNamespace)
           cred == _resolve_credentials(args, environ)
       IN  IF args.error \/ ~cred.ok
              THEN /\ mpc' = "exit"
                   /\ UNCHANGED <<calls, wiqlVars, taskVars>>
              ELSE /\ calls' = Append(calls,
                          [fn |-> IF args.mine THEN "get_my_open_tasks"
                                               ELSE "get_open_tasks",
                           org_url |-> cred.org_url, project |-> cred.project,
                           pat |-> cred.pat, area_paths |-> args.area])
                   /\ rows' \in TaskRowChoices
                   /\ wpc' = "page"
                   /\ tpc' = "wiql" /\ call_no' = 1
                   /\ mpc' = "query"
                   /\ UNCHANGED <<last_id, all_ids, pages, net1, result1>>
    /\ UNCHANGED <<argv, environ, tasks, out, errs, detailVars, appVars, kpiVars, net>>

\* json.dumps of one work-item document, as its tokens (white space left out).
JsonObject(doc) ==
    <<"{", "\"id\"", ":">> \o Str(doc.id)
    \o <<",", "\"fields\"", ":", "{", "\"State\"", ":", "\"", doc.fields.State, "\"", "}", "}">>

\* json.dumps(tasks, indent=2): "[]" for no documents, else the documents
\* between brackets, separated by commas.
RECURSIVE JsonItems(_)
JsonItems(docs) ==
    IF Len(docs) = 1 THEN JsonObject(docs[1])
    ELSE JsonObject(Head(docs)) \o <<",">> \o JsonItems(Tail(docs))

JsonDumps(docs) ==
    IF docs = <<>> THEN <<"[", "]">>
    ELSE <<"[">> \o JsonItems(docs) \o <<"]">>

\* f"{len(tasks)} tasks"
CountLine(docs) == Str(Len(docs)) \o <<" ", "t", "a", "s", "k", "s">>

\* main after the query operation returned: print the count or the documents.
MainPrint ==
    /\ mpc = "query" /\ tpc = "details" /\ dpc = "done"
    /\ tasks' = d_items
    /\ out' = Append(out,
                 IF ParseKnownArgs(argv, 1, DefaultNamespace).count
                    THEN CountLine(d_items) ELSE JsonDumps(d_items))
    /\ mpc' = "done"
    /\ UNCHANGED <<argv, environ, calls, wiqlVars, errs, detailVars, appVars, taskVars,
                   kpiVars, net>>

\* Command lines: the positionals first, then up to MaxFlags options.
PositionalChoices ==
    {<<>>, <<"https://example.com", "MyProject">>,
     <<"https://example.com", "MyProject", "token">>}

OptionChoices ==
    {<<"--mine">>, <<"--count">>, <<"--verbose">>,
     <<"--area", "Proj\\Area1">>, <<"--area", "Proj\\Area2">>}

RECURSIVE JoinOptions(_)
JoinOptions(opts) ==
    IF opts = <<>> THEN <<>> ELSE Head(opts) \o JoinOptions(Tail(opts))

ArgvChoices ==
    {pos \o JoinOptions(opts) :
        pos \in PositionalChoices,
        opts \in UNION {[1..n -> OptionChoices] : n \in 0..MaxFlags}}

EnvironChoices ==
    {NoEnviron,
     [NoEnviron EXCEPT !.AZURE_DEVOPS_PAT = "env-token"],
     [AZURE_DEVOPS_ORG_URL |-> "https://env.example.com",
      AZURE_DEVOPS_PROJECT |-> "EnvProject", AZURE_DEVOPS_PAT |-> "env-token"]}

MainInit ==
    /\ argv \in ArgvChoices
    /\ environ \in EnvironChoices
    /\ calls = <<>> /\ tasks = <<>> /\ out = <<>>
    /\ mpc = "start"
    /\ WiqlIdle /\ DetailIdle /\ HierIdle /\ FlatIdle /\ TasksIdle /\ KpiIdle
    /\ errs = 0 /\ net = 0

MainNext ==
    \/ MainCall
    \/ PageOk \/ PageFail
    \/ GetTasksDetails
    \/ DetailCall \/ DetailChunkOk \/ DetailChunkFail
    \/ MainPrint

SpecMain == MainInit /\ [][MainNext]_vars

IsPrefix(s, t) == Len(s) <= Len(t) /\ s = SubSeq(t, 1, Len(s))

\* C1: when every page request is answered by the endpoint (no failed round
\* trip), the IDs collected by _paged_wiql are at every step a duplicate-free
\* prefix of the matching IDs, and on return they are all of them: each
\* matching ID exactly once, whatever the total is relative to the ceiling.
C1_EachMatchingIdExactlyOnce ==
    errs = 0 =>
        /\ IsPrefix(all_ids, rows)
        /\ wpc = "done" => /\ Len(all_ids) = Len(rows)
                           /\ Range(all_ids) = Range(rows)

\* C1 witness: a result one above the ceiling was paged to the end.
C1_Witness ==
    /\ wpc = "done" /\ errs = 0
    /\ Len(rows) = WIQL_BATCH + 1
    /\ Len(pages) = 3
    /\ Len(all_ids) = WIQL_BATCH + 1

\* C2: the cursor of the first page request is 0; every page holds only IDs
\* above its cursor; each later request uses the last ID of the previous
\* non-empty page, which is above the previous cursor; and paging has stopped
\* exactly when the last page requested was empty.
C2_CursorStrictlyIncreases ==
    /\ pages # <<>> => pages[1].cursor = 0
    /\ \A k \in 1..Len(pages) : pages[k].n > 0 => pages[k].cursor < pages[k].first
    /\ \A k \in 1..(Len(pages) - 1) :
          /\ pages[k].n > 0
          /\ pages[k + 1].cursor = pages[k].last
          /\ pages[k + 1].cursor > pages[k].cursor
    /\ wpc = "page" => last_id = (IF pages = <<>> THEN 0 ELSE pages[Len(pages)].last)
    /\ wpc = "done" <=> (pages # <<>> /\ pages[Len(pages)].n = 0)

\* C2 witness: three successive page requests, the last one empty.
C2_Witness ==
    /\ wpc = "done" /\ errs = 0
    /\ Len(pages) = 3
    /\ pages[1].cursor < pages[2].cursor /\ pages[2].cursor < pages[3].cursor

\* C4 (as claimed): _paged_wiql never hands back an incomplete ID list: when
\* it returns, the list is the complete result, because a failed page request
\* aborts the operation instead.
C4_NeverReturnsPartialResult ==
    wpc = "done" => all_ids = rows

CeilDiv(n, d) == (n + d - 1) \div d

RECURSIVE Concat(_)
Concat(ss) == IF ss = <<>> THEN <<>> ELSE Head(ss) \o Concat(Tail(ss))

\* C3: the k-th detail request carries the k-th run of at most 200 consecutive
\* ids of the input; when the fetch returns it has issued ceil(N/200) requests
\* and its result is the per-chunk responses concatenated in chunk order
\* (as rows keyed by ID for fetch_details); for no ids it returns an empty
\* result without a request.
C3_DetailFetchChunks ==
    /\ \A k \in 1..Len(d_calls) :
          /\ Len(d_calls[k]) \in 1..WI_DETAILS_BATCH
          /\ d_calls[k] = SubSeq(d_ids, WI_DETAILS_BATCH * (k - 1) + 1,
                                 Min(WI_DETAILS_BATCH * k, Len(d_ids)))
    /\ dpc = "done" =>
          /\ Len(d_calls) = CeilDiv(Len(d_ids), WI_DETAILS_BATCH)
          /\ Len(d_resps) = Len(d_calls)
          /\ d_items = [k \in 1..Len(Concat(d_resps)) |->
                            DetailRecord(d_fn, Concat(d_resps)[k])]
          /\ errs = 0 => Concat(d_resps) = WorkItemsResponse(d_ids)
          /\ d_ids = <<>> => d_items = <<>> /\ d_calls = <<>>

\* C3 witness: 401 ids fetched in three requests of 200, 200 and 1 ids.
C3_Witness ==
    /\ dpc = "done" /\ errs = 0
    /\ Len(d_ids) = 2 * WI_DETAILS_BATCH + 1
    /\ Len(d_calls) = 3 /\ Len(d_calls[3]) = 1
    /\ Len(d_items) = Len(d_ids)

\* ------------------------------------------------ the link graph, as data
\* The forward-hierarchy children of a relation list, in link order, read
\* from the service's own targets (not from the URL text).
ForwardTargets(rels) ==
    LET f == SelectSeq(rels, LAMBDA r : r.rel = HierarchyForward /\ r.target # 0)
    IN  [k \in 1..Len(f) |-> f[k].target]

\* The items reachable from the set S along the child lists of map.
RECURSIVE Closure(_, _)
Closure(S, map) ==
    LET next == S \cup UNION {Range(Get(map, n)) : n \in S}
    IN  IF next = S THEN S ELSE Closure(next, map)

LinkMap == [n \in DOMAIN links |-> ForwardTargets(links[n])]
Reachable == Closure({root_id}, LinkMap)
Descendants == Closure(Range(LinkMap[root_id]), LinkMap)
HasCycle == \E n \in Reachable : n \in Closure(Range(LinkMap[n]), LinkMap)
HasMalformed(rels) ==
    \E k \in 1..Len(rels) : rels[k].rel = HierarchyForward /\ rels[k].target = 0

MapChildren(n) == Range(Get(children, n))
MapDescendants == Closure(MapChildren(root_id), children)

NoDuplicates(s) == Cardinality(Range(s)) = Len(s)

\* C5: when every batch request succeeded and build_hierarchy has returned,
\* the map gives for every item reachable from the root exactly its forward
\* children in link order, has no entry for any other item, and the items it
\* names are exactly the descendants of the root: 14 of them for the tree of
\* depth 3 and branching factor 2.
C5_AdjacencyOfReachableItems ==
    hpc = "returned" =>
        /\ \A n \in Reachable : Get(children, n) = ForwardTargets(links[n])
        /\ DOMAIN children \subseteq Reachable
        /\ UNION {Range(children[p]) : p \in DOMAIN children} = Descendants
        /\ seen = {root_id} \cup Descendants
        /\ links = BinaryTree => Cardinality(seen \ {root_id}) = 14

\* C5 witness: the tree of depth 3 and branching factor 2 was resolved.
C5_Witness ==
    /\ hpc = "returned" /\ links = BinaryTree
    /\ Cardinality(UNION {Range(children[p]) : p \in DOMAIN children}) = 14
    /\ children[7] = <<14, 15>>

\* C6: at every step of the traversal the queue holds no ID twice and only
\* seen IDs; no ID is ever enqueued twice (the root counts as enqueued from
\* the start) or fetched twice; and, while no request has failed, the IDs
\* enqueued are exactly the seen ones, fetched or waiting in FIFO order.
C6_EnqueuedAtMostOnce ==
    hpc # "idle" =>
        /\ NoDuplicates(queue)
        /\ Range(queue) \subseteq seen
        /\ NoDuplicates(enqueued)
        /\ NoDuplicates(fetched)
        /\ root_id \in seen /\ enqueued[1] = root_id
        /\ Range(enqueued) = seen
        /\ ~h_failed => fetched \o queue = enqueued

\* C6 witness: an item linked from two different parents, and a link back to
\* the root, in a finished traversal.
C6_Witness ==
    /\ hpc = "returned"
    /\ \E a, b \in DOMAIN children :
          a # b /\ Range(children[a]) \cap Range(children[b]) # {}
    /\ \E a \in DOMAIN children : root_id \in Range(children[a])

\* C7: on a link graph with a cycle every iteration of the while loop of
\* build_hierarchy expands at least one item not expanded before (or raises),
\* and the items expanded never outnumber the items reachable from the root,
\* so the loop is left after at most that many iterations; when it returns,
\* the queue is empty and every reachable item was expanded exactly once.
C7_CyclicTraversalTerminates ==
    /\ [](HasCycle /\ hpc # "idle" =>
            /\ Len(fetched) <= Cardinality(Reachable)
            /\ hpc = "bfs" => queue # <<>>
            /\ hpc = "returned" =>
                 /\ queue = <<>>
                 /\ Range(fetched) = Reachable
                 /\ Len(fetched) = Cardinality(Reachable))
    /\ [][HasCycle /\ hpc = "bfs" =>
            \/ hpc' = "raised"
            \/ /\ Len(fetched') > Len(fetched)
               /\ hpc' = "returned" <=> queue' = <<>>]_vars

\* C7 witness: a finished traversal of a graph in which the root is its own
\* descendant.
C7_Witness ==
    /\ hpc = "returned" /\ HasCycle
    /\ root_id \in Descendants
    /\ queue = <<>>

\* C8: an expanded item that carries a malformed forward link gets exactly its
\* well-formed forward children recorded, in link order, and each of them is
\* seen (enqueued); the malformed link never makes the traversal raise.
C8_MalformedLinkSkipped ==
    /\ \A n \in Range(fetched) :
          HasMalformed(links[n]) =>
              /\ Get(children, n) = ForwardTargets(links[n])
              /\ Range(ForwardTargets(links[n])) \subseteq seen
              /\ Range(ForwardTargets(links[n])) \subseteq Range(enqueued)
    /\ hpc = "raised" => h_failed
    /\ (hpc = "returned" /\ ~h_failed) =>
          \A n \in Reachable : n \in Range(fetched)

\* C8 witness: an item whose malformed link comes before a well-formed one,
\* in a finished traversal.
C8_Witness ==
    /\ hpc = "returned"
    /\ \E n \in Range(fetched) :
          /\ Len(links[n]) >= 2
          /\ links[n][1] = ForwardMalformed
          /\ links[n][2].rel = HierarchyForward /\ links[n][2].target # 0
          /\ children[n] = <<links[n][2].target>>

\* C9: when flatten returns, the IDs of its list are exactly the descendants
\* of the root in the map; the map is as build_hierarchy returned it; and
\* the second call over the same map gives the same set of IDs as the first.
C9_FlattenDescendantSet ==
    /\ fpc = "done" => Range(res) = MapDescendants
    /\ fpc # "idle" => children = cmap0
    /\ (fpc = "done" /\ f_run = 2) => Range(res) = Range(res1)

\* C9 witness: the second call has returned a list that holds an item below
\* the root's own children.
C9_Witness ==
    /\ fpc = "done" /\ f_run = 2
    /\ Range(res) # {}
    /\ Range(res) # MapChildren(root_id)
    /\ Range(res) = Range(res1)

\* C10 (as claimed): the second call of get_open_tasks with the same
\* arguments issues no request: while it runs and after it returns, the
\* requests issued are those of the first call.
C10_SecondCallIssuesNoRequest ==
    call_no = 2 => net = net1

\* ------------------------------------------------ flatten: the pops it owes
\* The paths of the map that leave item n and revisit no item of `visited`
\* (nor any item twice), an edge listed twice counting twice.
RECURSIVE SimplePaths(_, _)
RECURSIVE SimplePathsFrom(_, _, _)
SimplePaths(n, visited) == SimplePathsFrom(Get(children, n), 1, visited)
SimplePathsFrom(cs, k, visited) ==
    IF k > Len(cs) THEN 0
    ELSE (IF cs[k] \in visited THEN 0
          ELSE 1 + SimplePaths(cs[k], visited \cup {cs[k]}))
         + SimplePathsFrom(cs, k + 1, visited)

MapHasCycle == \E n \in MapDescendants : n \in Closure(MapChildren(n), children)

\* C13 (as claimed): flatten terminates on every map build_hierarchy returns.
\* flatten pops one item per path of the map that leaves the root, so a run
\* that terminates pops only paths that revisit no item, and never more
\* items than there are such paths; a pop beyond that number follows a path
\* through a cycle, which the loop then follows without end.
C13_FlattenTerminates ==
    fpc # "idle" => Len(res) <= SimplePaths(root_id, {root_id})

\* ------------------------------------------------------------- the KPIs
StateColumn == [k \in 1..Len(df_det.rows) |-> df_det.rows[k].State]
FinalRows == {k \in 1..Len(df_det.rows) : StateColumn[k] \in FINAL_STATES}
OpenRows == {k \in 1..Len(df_det.rows) : StateColumn[k] \notin FINAL_STATES}

\* C11 (as claimed): for every detail set the aggregation gives closed_cnt =
\* the number of rows in a final state, open_cnt = total - closed_cnt (every
\* row counted in exactly one of the two), and pct = 100 * closed_cnt / total
\* to the nearest tenth, 0 when total is 0; the states Closed, Active, Active,
\* Removed give open_cnt 2, closed_cnt 2 and pct 50.0.
C11_MetricAggregation ==
    kpc \notin {"idle", "kpis"} =>
        /\ kpc = "done"
        /\ total = Len(df_det.rows)
        /\ closed_cnt = Cardinality(FinalRows)
        /\ open_cnt = Cardinality(OpenRows)
        /\ open_cnt + closed_cnt = total
        /\ total = 0 => pct = 0
        /\ total # 0 =>
              /\ 2 * (pct * total - 1000 * closed_cnt) <= total
              /\ 2 * (1000 * closed_cnt - pct * total) <= total
        /\ StateColumn = <<"Closed", "Active", "Active", "Removed">> =>
              open_cnt = 2 /\ closed_cnt = 2 /\ pct = 500

\* ------------------------------------------------------- the command line
OptionTokens == {"--mine", "--count", "--area", "--verbose"}

\* The values that follow an --area, in command-line order.
ArgAreas ==
    LET at == SortedSeq({k \in 2..Len(argv) : argv[k - 1] = "--area"})
    IN  [i \in 1..Len(at) |-> argv[at[i]]]

\* The tokens that are neither an option nor the value of an --area.
ArgPositionals ==
    LET at == SortedSeq({k \in 1..Len(argv) :
                            /\ argv[k] \notin OptionTokens
                            /\ k > 1 => argv[k - 1] # "--area"})
    IN  [i \in 1..Len(at) |-> argv[at[i]]]

Resolved(i, name) ==
    IF Len(ArgPositionals) >= i THEN ArgPositionals[i] ELSE environ[name]

AllResolved ==
    /\ Resolved(1, "AZURE_DEVOPS_ORG_URL") # ""
    /\ Resolved(2, "AZURE_DEVOPS_PROJECT") # ""
    /\ Resolved(3, "AZURE_DEVOPS_PAT") # ""

\* The work-item IDs read back from a printed JSON array: the number between
\* each "id" key and the comma that follows it.
PrintedIds(text) ==
    LET at == SortedSeq({k \in 1..Len(text) : text[k] = "\"id\""})
        comma(k) == CHOOSE j \in (k + 1)..Len(text) :
                        /\ text[j] = ","
                        /\ \A h \in (k + 1)..(j - 1) : text[h] # ","
    IN  [i \in 1..Len(at) |-> ParseInt(SubSeq(text, at[i] + 2, comma(at[i]) - 1))]

\* C12: a run of main whose credentials resolve calls one query operation,
\* once: get_my_open_tasks when --mine is given, get_open_tasks otherwise, with
\* the resolved organization URL, project and token and with the --area
\* values in command-line order (None without --area); a run whose
\* credentials do not resolve exits before any call.  When main returns it
\* has printed one text: with --count the line "<n> tasks", n the number of
\* records the operation returned, otherwise those records as a JSON array.
C12_MainCallsOneQueryAndPrints ==
    /\ mpc = "exit" => ~AllResolved /\ calls = <<>> /\ out = <<>>
    /\ mpc \in {"query", "done"} =>
          /\ AllResolved
          /\ Len(calls) = 1
          /\ calls[1].fn = IF "--mine" \in Range(argv) THEN "get_my_open_tasks"
                                                      ELSE "get_open_tasks"
          /\ calls[1].org_url = Resolved(1, "AZURE_DEVOPS_ORG_URL")
          /\ calls[1].project = Resolved(2, "AZURE_DEVOPS_PROJECT")
          /\ calls[1].pat = Resolved(3, "AZURE_DEVOPS_PAT")
          /\ calls[1].area_paths.is_none <=> ArgAreas = <<>>
          /\ calls[1].area_paths.values = ArgAreas
    /\ mpc = "query" => out = <<>>
    /\ mpc = "done" =>
          /\ tasks = d_items
          /\ Len(out) = 1
          /\ IF "--count" \in Range(argv)
                THEN LET n == Len(out[1]) - 6
                     IN  /\ n >= 1
                         /\ ParseInt(SubSeq(out[1], 1, n)) = [ok |-> TRUE, val |-> Len(tasks)]
                         /\ SubSeq(out[1], n + 1, n + 6) = <<" ", "t", "a", "s", "k", "s">>
                ELSE /\ Head(out[1]) = "[" /\ out[1][Len(out[1])] = "]"
                     /\ PrintedIds(out[1]) =
                           [i \in 1..Len(tasks) |-> [ok |-> TRUE, val |-> tasks[i].id]]

\* C12 witness: the command line of test_main_count, three tasks returned,
\* "3 tasks" printed.
C12_Witness ==
    /\ mpc = "done"
    /\ argv = <<"https://example.com", "MyProject", "token", "--count",
                "--area", "Proj\\Area1", "--area", "Proj\\Area2">>
    /\ calls = <<[fn |-> "get_open_tasks", org_url |-> "https://example.com",
                  project |-> "MyProject", pat |-> "token",
                  area_paths |-> [is_none |-> FALSE,
                                  values |-> <<"Proj\\Area1", "Proj\\Area2">>]]>>
    /\ Len(tasks) = 3
    /\ out = <<<<"3", " ", "t", "a", "s", "k", "s">>>>
====
